---- MODULE Spec2Model ----
(***************************************************************************)
(* State-machine model of the VertiDog kitchen display server.  The        *)
(* repository holds thirteen versions of the server program (three in      *)
(* src/server.js, ten in src/unnamed/part_000 .. part_006); `variant`      *)
(* says which of them is the running process.  Every handler is modelled   *)
(* per version from that version's code.                                   *)
(*                                                                         *)
(* Encoding of JavaScript values:                                          *)
(*   - an absent / undefined / null string field is the string Undef;      *)
(*   - an absent number (createdAt, completedAt) is 0, an absent or null   *)
(*     itemCount is NullNum;                                               *)
(*   - item.completed is kept by its truthiness (absent reads as FALSE);   *)
(*   - the store `orders` (a JS object) is the sequence of its entries in  *)
(*     Object.values order.                                                *)
(***************************************************************************)
EXTENDS Integers, Sequences, FiniteSets, TLC

VARIABLES
    variant,          \* which version of the server is running
    proc,             \* the process: "up", "down", or "broken" (up, `orders` no object)
    orders,           \* the in-memory store: Seq of [k |-> key, o |-> order]
    disk,             \* the state file and whether writes to it succeed
    sessions,         \* the open display sessions (wss.clients, readyState 1)
    pending,          \* webhook requests suspended at `await fetchOrderFromSquare`
    testOrderCounter, \* the /test-order ticket counter
    now,              \* Date.now()
    ev,               \* the event handled by the last step
    fx,               \* the side effects of the last step, in program order
    outbox            \* the messages each session was sent by the last step

vars == <<variant, proc, orders, disk, sessions, pending, testOrderCounter, now, ev, fx, outbox>>

-----------------------------------------------------------------------------
(* Bounds of the model *)

MaxOrders == 1
MaxStore == 2
MaxPending == 1
MaxOverlap == 2
MaxClock == 2
MaxTickets == 2

-----------------------------------------------------------------------------
(* The versions of the program *)

Variants ==
    {"srv1", "srv2", "srv3", "p000a", "p000b", "p001", "p002a", "p002b",
     "p003", "p004a", "p004b", "p005", "p006"}

\* versions whose /square/webhook handler merges the event into orders[orderId]
MergeVariants == {"srv2", "srv3", "p000a", "p001", "p003", "p004b", "p005", "p006"}

\* versions that define saveKDSState
PersistVariants == {"srv2", "p000a", "p000b", "p001", "p006"}

\* versions whose store is keyed by orderNumber
NumberKeyed == {"p000b", "p002a", "p002b", "p004a"}

Sessions == {"s1", "s2"}

Undef == "undefined"
NullNum == 0 - 1

Statuses == {"new", "in-progress", "ready", "done", "cancelled"}

-----------------------------------------------------------------------------
(* Strings *)

Digit == <<"0", "1", "2", "3", "4", "5", "6", "7", "8", "9">>

\* String(n) for 0 <= n <= 999
NumStr(n) ==
    IF n < 10 THEN Digit[n + 1]
    ELSE IF n < 100 THEN Digit[(n \div 10) + 1] \o Digit[(n % 10) + 1]
    ELSE Digit[(n \div 100) + 1] \o Digit[((n \div 10) % 10) + 1] \o Digit[(n % 10) + 1]

\* String(n).padStart(3, '0')
PadStart3(n) ==
    Digit[((n \div 100) % 10) + 1] \o Digit[((n \div 10) % 10) + 1] \o Digit[(n % 10) + 1]

\* s.toLowerCase() on the strings the model feeds in
ToLowerCase(s) ==
    CASE s = "OPEN" -> "open"
      [] s = "COMPLETED" -> "completed"
      [] s = "CANCELED" -> "canceled"
      [] s = "Closed" -> "closed"
      [] s = "sq-ORD-a1" -> "sq-ord-a1"
      [] s = "Dog" -> "dog"
      [] s = "Classic" -> "classic"
      [] s = "DOG" -> "dog"
      [] OTHER -> s

\* s.toUpperCase()
ToUpperCase(s) ==
    CASE s = "ord-a1" -> "ORD-A1"
      [] s = "ORD-a1" -> "ORD-A1"
      [] s = "ord-b2" -> "ORD-B2"
      [] OTHER -> s

\* s.slice(-6)
Slice6(s) ==
    CASE s = "sq-ord-a1" -> "ord-a1"
      [] s = "sq-ORD-a1" -> "ORD-a1"
      [] s = "sq-ord-b2" -> "ord-b2"
      [] OTHER -> s

\* s.slice(-4)
Slice4(s) ==
    CASE s = "sq-ord-a1" -> "d-a1"
      [] OTHER -> s

\* s.match(/\d+/): the first run of digits, Undef when s has none
FirstDigits(s) ==
    CASE s = "d-a1" -> "1"
      [] s = "Order #155" -> "155"
      [] s = "0000" -> "0000"
      [] OTHER -> Undef

\* s.trim()
Trim(s) ==
    CASE s = " Classic " -> "Classic"
      [] s = "  " -> ""
      [] s = " no onions " -> "no onions"
      [] OTHER -> s

\* JS truthiness of a string-or-absent value
Truthy(s) == s # Undef /\ s # ""

\* a || b on string-or-absent values
OrElse(a, b) == IF Truthy(a) THEN a ELSE b

-----------------------------------------------------------------------------
(* Records *)

Item(name, quantity, modifiers, completed) ==
    [name |-> name, quantity |-> quantity, modifiers |-> modifiers, completed |-> completed]

NoOrder ==
    [orderId |-> Undef, orderNumber |-> Undef, status |-> Undef, createdAt |-> 0,
     itemCount |-> NullNum, items |-> <<>>, hasItems |-> FALSE, stateFromSquare |-> Undef,
     fulfillmentType |-> Undef, orderNote |-> Undef, completedAt |-> 0]

Entry(key, order) == [k |-> key, o |-> order]

Keys(store) == {store[i].k : i \in 1..Len(store)}

\* orders[key], NoOrder when the key is absent
Get(store, key) ==
    IF key \in Keys(store)
    THEN store[CHOOSE i \in 1..Len(store) : store[i].k = key].o
    ELSE NoOrder

\* a property name every JS object inherits from Object.prototype: orders[name]
\* is then a function (truthy) although the store has no such order
Inherited == {"constructor"}

\* Object.values(orders)
Values(store) == [i \in 1..Len(store) |-> store[i].o]

\* the value of an integer-like property key, NullNum for any other key
KeyIndex(key) ==
    CASE key = "1" -> 1
      [] key = "155" -> 155
      [] key = "156" -> 156
      [] OTHER -> NullNum

RECURSIVE InsertSorted(_, _)
InsertSorted(store, e) ==
    IF store = <<>> THEN <<e>>
    ELSE IF KeyIndex(Head(store).k) = NullNum \/ KeyIndex(Head(store).k) > KeyIndex(e.k)
         THEN <<e>> \o store
         ELSE <<Head(store)>> \o InsertSorted(Tail(store), e)

\* orders[key] = order: an existing key keeps its place; a new integer-like key
\* goes among the integer-like keys in ascending order, any other new key last
Put(store, key, order) ==
    IF key \in Keys(store)
    THEN [i \in 1..Len(store) |-> IF store[i].k = key THEN Entry(key, order) ELSE store[i]]
    ELSE IF KeyIndex(key) # NullNum THEN InsertSorted(store, Entry(key, order))
    ELSE Append(store, Entry(key, order))

\* Object.values(orders).find(o => o.orderNumber === n): its key, Undef when none
FindByNumber(store, n) ==
    IF \E i \in 1..Len(store) : store[i].o.orderNumber = n
    THEN store[CHOOSE i \in 1..Len(store) :
                   /\ store[i].o.orderNumber = n
                   /\ \A j \in 1..(i - 1) : store[j].o.orderNumber # n].k
    ELSE Undef

-----------------------------------------------------------------------------
(* Raw input from the order source *)

\* a JSON value in the place of a quantity: a number, a string, or null / absent
QNum(n) == [t |-> "number", n |-> n, s |-> ""]
QStr(s) == [t |-> "string", n |-> 0, s |-> s]
QNull == [t |-> "null", n |-> 0, s |-> ""]

NaN == 0 - 999

\* Number(s) for the strings the model feeds in (NaN when s is not numeric)
NumberOfString(s) ==
    CASE s = "" -> 0
      [] s = "0" -> 0
      [] s = "1" -> 1
      [] s = "2" -> 2
      [] s = "3" -> 3
      [] OTHER -> NaN

\* q || 1 : null, 0, NaN and "" are falsy
QOrOne(q) ==
    IF \/ q.t = "null"
       \/ (q.t = "number" /\ (q.n = 0 \/ q.n = NaN))
       \/ (q.t = "string" /\ q.s = "")
    THEN QNum(1)
    ELSE q

\* toNumberQuantity(q)
toNumberQuantity(q) ==
    IF q.t = "null" THEN 0
    ELSE LET n == IF q.t = "number" THEN q.n ELSE NumberOfString(q.s)
         IN  IF n # NaN THEN n ELSE 0

\* a raw line item of the source; mods.isArray = FALSE when li.modifiers is no array
LineItem(name, variation, quantity, isArray, modNames) ==
    [name |-> name, variation_name |-> variation, quantity |-> quantity,
     mods |-> [isArray |-> isArray, names |-> modNames]]

RECURSIVE FilterTruthy(_)
FilterTruthy(names) ==
    IF names = <<>> THEN <<>>
    ELSE IF Truthy(Head(names)) THEN <<Head(names)>> \o FilterTruthy(Tail(names))
    ELSE FilterTruthy(Tail(names))

\* Array.isArray(li.modifiers) ? li.modifiers.map(m => m.name).filter(Boolean) : []
Modifiers(li) == IF li.mods.isArray THEN FilterTruthy(li.mods.names) ELSE <<>>

\* the display name of a line item in the versions that join base and variation name
DisplayNameJoined(li) ==
    LET baseName == OrElse(li.name, "Item")
        variationName == IF Truthy(li.variation_name) THEN Trim(li.variation_name) ELSE Undef
    IN  IF Truthy(variationName) /\ ToLowerCase(variationName) # ToLowerCase(baseName)
        THEN baseName \o " - " \o variationName
        ELSE baseName

\* the display name of a line item in buildItemsFromLineItems
DisplayNameUmbrella(li) ==
    LET umbrella == OrElse(li.name, "")
        variation == OrElse(li.variation_name, "")
    IN  IF variation # "" /\ umbrella # "" /\ ToLowerCase(variation) # ToLowerCase(umbrella)
        THEN variation \o " (" \o umbrella \o ")"
        ELSE OrElse(OrElse(variation, umbrella), "Item")

DisplayName(v, li) ==
    CASE v \in {"srv2", "srv3", "p004b"} -> DisplayNameJoined(li)
      [] v = "p003" -> DisplayNameUmbrella(li)
      [] OTHER -> OrElse(li.name, "Item")

\* CompletedAt without the stored flags
CompletedAtFalse(v, existing, i) == FALSE

\* the `completed` a rebuilt item gets at (1-based) position i
CompletedAt(v, existing, i) ==
    IF v = "srv3" /\ existing.hasItems /\ i <= Len(existing.items)
    THEN existing.items[i].completed
    ELSE FALSE

\* fullOrder.line_items.map(...)
MapLineItems(v, lineItems, existing) ==
    [i \in 1..Len(lineItems) |->
        LET li == lineItems[i]
            qty == toNumberQuantity(QOrOne(li.quantity))
        IN  Item(DisplayName(v, li),
                 IF v = "p003" THEN (IF qty = 0 THEN 1 ELSE qty) ELSE qty,
                 Modifiers(li),
                 CompletedAt(v, existing, i))]

\* buildItemsFromLineItems(lineItems, previousItems)
buildItemsFromLineItems(lineItems, existing) ==
    IF Len(lineItems) = 0 THEN existing.items
    ELSE MapLineItems("p003", lineItems, existing)

RECURSIVE SumQuantity(_)
\* items.reduce((sum, it) => sum + toNumberQuantity(it.quantity), 0)
SumQuantity(items) ==
    IF items = <<>> THEN 0 ELSE Head(items).quantity + SumQuantity(Tail(items))

\* a full order object of the source (eventWrapper.order, or what the Orders API returns)
NoFull ==
    [present |-> FALSE, id |-> Undef, state |-> Undef, ticket_name |-> Undef,
     display_id |-> Undef, hasLineItems |-> FALSE, line_items |-> <<>>,
     fulfillment |-> Undef, note |-> Undef]

LiTwo ==
    << LineItem("Dog", " Classic ", QNum(2), TRUE, <<"Mustard", "">>),
       LineItem("Coke", Undef, QNull, FALSE, <<>>) >>

LiOne == << LineItem("Dog", "DOG", QStr("abc"), TRUE, <<>>) >>

FullWith(id, state, number, hasLi, li, fulfillment, note) ==
    [present |-> TRUE, id |-> id, state |-> state, ticket_name |-> Undef,
     display_id |-> number, hasLineItems |-> hasLi, line_items |-> li,
     fulfillment |-> fulfillment, note |-> note]

SourceIds == {"sq-ord-a1"}

SourceStates == {"OPEN", "CANCELED", "Closed"}

\* the full orders the source can send in a webhook for an order id: with two
\* line items, with one, and with an empty list
FullOrders(id) ==
    { FullWith(id, Undef, "101", TRUE, LiTwo, "PICKUP", " no onions "),
      FullWith(id, Undef, Undef, TRUE, LiOne, Undef, "  "),
      FullWith(id, Undef, "101", TRUE, <<>>, "PICKUP", " no onions ") }

\* what the Orders API can return: null (any failure), or the order
Fetched(id) ==
    { NoFull, FullWith(id, Undef, "101", TRUE, LiTwo, "PICKUP", " no onions ") }

\* a webhook body: its event wrapper may be missing, and so may the order id
Payload(wrapper, order_id, state, order) ==
    [wrapper |-> wrapper, order_id |-> order_id, state |-> state, order |-> order]

Payloads ==
    { Payload(FALSE, Undef, Undef, NoFull), Payload(TRUE, Undef, "OPEN", NoFull) }
    \cup UNION { { Payload(TRUE, id, st, f) :
                      st \in SourceStates, f \in {NoFull} \cup FullOrders(id) } :
                    id \in SourceIds }

\* a webhook body for another order of the source that carries the display
\* number of the first
SecondPayloads ==
    { Payload(TRUE, "sq-ord-b2", "OPEN",
              FullWith("sq-ord-b2", Undef, "101", TRUE, LiOne, Undef, "  ")) }

-----------------------------------------------------------------------------
(* The /square/webhook handler of the merging versions, as pure functions *)

\* the order number the handler derives before it reads the store
SourceOrderNumber(v, full, orderId) ==
    IF v = "srv3"
    THEN IF full.present
         THEN OrElse(full.display_id, ToUpperCase(Slice6(orderId)))
         ELSE ToUpperCase(Slice6(orderId))
    ELSE IF full.present
         THEN OrElse(OrElse(full.ticket_name, full.display_id),
                     IF Truthy(full.id) THEN ToUpperCase(Slice6(full.id)) ELSE Undef)
         ELSE ToUpperCase(Slice6(orderId))

\* merged.orderNumber
MergedOrderNumber(v, full, orderId, existing) ==
    IF v = "p003"
    THEN OrElse(SourceOrderNumber(v, full, orderId), ToUpperCase(Slice6(orderId)))
    ELSE OrElse(OrElse(SourceOrderNumber(v, full, orderId), existing.orderNumber), Slice6(orderId))

\* MergedItems without the fallback to the stored items
MergedItemsFresh(v, full, existing) ==
    IF full.present /\ full.hasLineItems
    THEN IF v = "p003" THEN buildItemsFromLineItems(full.line_items, existing)
         ELSE MapLineItems(v, full.line_items, existing)
    ELSE <<>>

\* the items of the merged order
MergedItems(v, full, existing) ==
    IF full.present /\ full.hasLineItems
    THEN IF v = "p003" THEN buildItemsFromLineItems(full.line_items, existing)
         ELSE MapLineItems(v, full.line_items, existing)
    ELSE IF existing.hasItems THEN existing.items
    ELSE <<>>

\* typeof state === "string" ? state.toLowerCase() : ""
StateFromSquare(v, state) ==
    IF state = Undef THEN (IF v = "p003" THEN "open" ELSE "") ELSE ToLowerCase(state)

IsCancelling(sfs) == sfs = "canceled" \/ sfs = "closed"

SomeCompleted(items) == \E i \in 1..Len(items) : items[i].completed

EveryCompleted(items) == \A i \in 1..Len(items) : items[i].completed

\* KdsStatus without the lock: a non-cancelling event resets the status
KdsStatusUnlocked(v, prev, sfs, items) ==
    IF IsCancelling(sfs) THEN "cancelled" ELSE "new"

\* KdsStatus with the lock tested before the cancellation
KdsStatusLockFirst(v, prev, sfs, items) ==
    IF prev # Undef /\ prev # "new" /\ prev # "in-progress" THEN prev
    ELSE IF IsCancelling(sfs) THEN "cancelled"
    ELSE OrElse(prev, "new")

\* the status lock: the status of the merged order (prev = Undef for a new order)
KdsStatus(v, prev, sfs, items) ==
    CASE v = "srv2" ->
            IF IsCancelling(sfs) THEN "cancelled"
            ELSE IF prev # Undef /\ prev # "new" /\ prev # "in-progress" THEN prev
            ELSE OrElse(prev, "new")
      [] v = "srv3" ->
            IF IsCancelling(sfs) THEN "cancelled"
            ELSE IF prev = "ready" \/ prev = "cancelled" THEN prev
            ELSE IF SomeCompleted(items) /\ OrElse(prev, "new") = "new" THEN "in-progress"
            ELSE OrElse(prev, "new")
      [] v \in {"p000a", "p001", "p006"} ->
            LET kds == IF IsCancelling(sfs) THEN "cancelled" ELSE OrElse(prev, "new")
            IN  IF prev # Undef /\ prev # "new" /\ kds # "cancelled" THEN prev ELSE kds
      [] v = "p004b" ->
            IF IsCancelling(sfs) THEN "cancelled"
            ELSE IF prev = "ready" THEN "ready"
            ELSE IF prev = Undef /\ sfs = "open" THEN "new"
            ELSE OrElse(prev, "new")
      [] OTHER -> OrElse(prev, "new")

\* getFulfillmentType(fullOrder)
getFulfillmentType(v, full) ==
    LET dflt == IF v = "p004b" THEN "FOR HERE (Default)" ELSE "Dine In"
    IN  IF ~full.present \/ full.fulfillment = Undef THEN dflt
        ELSE CASE full.fulfillment = "PICKUP" -> "PICKUP / TO GO"
               [] full.fulfillment = "CURBSIDE" -> "CURBSIDE PICKUP"
               [] full.fulfillment = "DELIVERY" -> "DELIVERY"
               [] full.fulfillment = "SHIPMENT" /\ v = "p004b" -> "SHIPMENT"
               [] OTHER -> dflt

\* getOrderNote(fullOrder): Undef stands for null
getOrderNote(full) ==
    IF ~full.present \/ ~Truthy(full.note) \/ Trim(full.note) = "" THEN Undef
    ELSE Trim(full.note)

HasMeta(v) == v \in {"srv3", "p004b"}

\* the order the handler writes to orders[orderId]
Merged(v, orderId, state, full, existing, t) ==
    LET items == MergedItems(v, full, existing)
        sfs == StateFromSquare(v, state)
    IN  [orderId |-> orderId,
         orderNumber |-> MergedOrderNumber(v, full, orderId, existing),
         status |-> KdsStatus(v, existing.status, sfs, items),
         createdAt |-> IF existing.createdAt # 0 THEN existing.createdAt ELSE t,
         itemCount |-> SumQuantity(items),
         items |-> items,
         hasItems |-> TRUE,
         stateFromSquare |-> sfs,
         fulfillmentType |-> IF HasMeta(v) THEN getFulfillmentType(v, full) ELSE Undef,
         orderNote |-> IF HasMeta(v) THEN getOrderNote(full) ELSE Undef,
         completedAt |-> 0]

\* shouldBroadcast without the suppression
shouldBroadcastAlways(v, prev, status) == TRUE

\* whether the handler broadcasts the merged order
shouldBroadcast(v, prev, status) ==
    IF v \in {"srv2", "srv3", "p004b"}
    THEN ~(prev # Undef /\ status = prev /\ (status = "cancelled" \/ status = "ready"))
    ELSE TRUE

-----------------------------------------------------------------------------
(* Persistence *)

\* the state file: absent, or holding what saveKDSState wrote ("json"), or
\* damaged from outside: empty or blank ("empty"), unparseable text
\* ("garbage"), or the JSON text `null` ("null")
NoFile == [exists |-> FALSE, content |-> "none", data |-> <<>>]

JsonFile(data) == [exists |-> TRUE, content |-> "json", data |-> data]

DamagedFile(kind) == [exists |-> TRUE, content |-> kind, data |-> <<>>]

Damages == {"empty", "garbage", "null"}

\* the four fields saveKDSState keeps in the versions that save a simplified list
Simplified(o) ==
    [NoOrder EXCEPT !.orderId = o.orderId, !.orderNumber = o.orderNumber,
                    !.status = o.status, !.createdAt = o.createdAt]

\* what saveKDSState writes
SavedData(v, store) ==
    IF v \in {"p000a", "p006"}
    THEN [i \in 1..Len(store) |-> Entry(store[i].k, Simplified(store[i].o))]
    ELSE store

\* the file after saveKDSState: a failed write is caught and leaves it as it was
saveKDSState(v, store, file, writable) ==
    IF v \in PersistVariants /\ writable
    THEN JsonFile(SavedData(v, store))
    ELSE file

\* saveKDSState letting a failed write escape to its caller
saveThrowsOnFailure(v, writable) == v \in PersistVariants /\ ~writable

\* whether saveKDSState() throws to its caller: its try / catch logs the error
\* of a failed write and returns
saveThrows(v, writable) == FALSE

\* the effects of a handler step that writes, saves and broadcasts
SaveFx(v) == IF v \in PersistVariants THEN <<"save">> ELSE <<>>

RECURSIVE MergeSimplified(_, _)
\* simplifiedOrders.forEach(o => orders[o.orderId] = { ...orders[o.orderId],
\*     orderId, orderNumber, status, createdAt })
MergeSimplified(store, list) ==
    IF list = <<>> THEN store
    ELSE LET o == Head(list).o
             merged == [Get(store, o.orderId) EXCEPT
                           !.orderId = o.orderId, !.orderNumber = o.orderNumber,
                           !.status = o.status, !.createdAt = o.createdAt]
         IN  MergeSimplified(Put(store, o.orderId, merged), Tail(list))

\* loadKDSState() at startup: the store it leaves, and whether `orders` is
\* still an object (JSON.parse('null') assigned to `orders` leaves null)
loadKDSState(v, file) ==
    LET empty == [store |-> <<>>, usable |-> TRUE]
        whole == [store |-> file.data, usable |-> TRUE]
        null == [store |-> <<>>, usable |-> FALSE]
    IN  CASE v = "srv2" ->
                \* existsSync, skip a blank file, Object.assign(orders, parsed)
                IF file.exists /\ file.content = "json" THEN whole ELSE empty
          [] v = "p001" ->
                \* existsSync, orders = JSON.parse(data); a throw is caught
                IF file.exists /\ file.content = "json" THEN whole
                ELSE IF file.exists /\ file.content = "null" THEN null
                ELSE empty
          [] v = "p000b" ->
                \* readFileSync, blank file -> {}, orders = JSON.parse(data);
                \* every throw -> {}
                IF file.exists /\ file.content = "json" THEN whole
                ELSE IF file.exists /\ file.content = "null" THEN null
                ELSE empty
          [] v \in {"p000a", "p006"} ->
                \* JSON.parse(data).forEach(...); a throw is caught
                IF file.exists /\ file.content = "json"
                THEN [store |-> MergeSimplified(<<>>, file.data), usable |-> TRUE]
                ELSE empty
          [] OTHER -> empty

\* the state file after startup: part_001 creates a missing file holding {}
StartFile(v, file, writable) ==
    IF v = "p001" /\ ~file.exists /\ writable THEN JsonFile(<<>>) ELSE file

-----------------------------------------------------------------------------
(* Messages *)

NoMsg ==
    [type |-> Undef, orderNumber |-> Undef, order |-> NoOrder, orders |-> <<>>,
     itemIndex |-> NullNum, completed |-> FALSE, allCompleted |-> FALSE, status |-> Undef]

\* { type, ...order }
OrderMsg(type, order) == [NoMsg EXCEPT !.type = type, !.orderNumber = order.orderNumber, !.order = order]

\* { type, orderNumber }
NumberMsg(type, n) == [NoMsg EXCEPT !.type = type, !.orderNumber = n]

\* { type, orders }
SyncMsg(type, list) == [NoMsg EXCEPT !.type = type, !.orders = list]

Quiet == [s \in Sessions |-> <<>>]

\* broadcast(msg): one send to every open session
broadcast(open, msg) == [s \in Sessions |-> IF s \in open THEN <<msg>> ELSE <<>>]

\* what the sessions get from broadcast(msg) when client.send throws for the
\* session bad (Undef: no send throws): forEach stops at the throw, so the
\* sessions wss.clients holds before bad have the message and the ones after
\* it do not; the order of wss.clients is the order of connection
Sends(open, msg, bad) ==
    IF bad = Undef
    THEN {broadcast(open, msg)}
    ELSE { [s \in Sessions |-> IF s \in before THEN <<msg>> ELSE <<>>] :
              before \in SUBSET (open \ {bad}) }

\* SendTo answering every session instead of the one that asked
SendToAll(s, msg) == [t \in Sessions |-> <<msg>>]

\* ws.send(msg) to one session
SendTo(s, msg) == [Quiet EXCEPT ![s] = <<msg>>]

-----------------------------------------------------------------------------
(* The event record of a step *)

\* kind: the handler that ran; ref: the order id / number a display message
\* named; key: the store key the step wrote (Undef when it wrote nothing);
\* prevStatus / existed: the order at that key before the step; kept: whether
\* the step left every field of that order but its status as it was; arg: the
\* class of the input the handler was given, where a property needs it
NoRef == [orderId |-> "undefined", orderNumber |-> "undefined"]

NoEv ==
    [kind |-> "none", ref |-> NoRef, key |-> Undef, sess |-> Undef,
     prevStatus |-> Undef, existed |-> FALSE, kept |-> FALSE, arg |-> "none",
     cancelling |-> FALSE, raced |-> FALSE]

Handled(kind, ref, key, store, after) ==
    [NoEv EXCEPT !.kind = kind, !.ref = ref, !.key = key,
                 !.prevStatus = Get(store, key).status,
                 !.existed = key \in Keys(store),
                 !.kept = [Get(store, key) EXCEPT !.status = after.status] = after]

\* a display message that found no order to act on
Ignored(kind, ref) == [NoEv EXCEPT !.kind = kind, !.ref = ref]

\* Date.now() after a handler has run: the same millisecond, or a later one
Tick(t) == IF t < MaxClock THEN t + 1 ELSE t

\* the process has started for the first time, with no state file
InitOf(V) ==
    /\ variant \in V
    /\ proc = "up"
    /\ orders = <<>>
    /\ disk = [file |-> StartFile(variant, NoFile, TRUE), writable |-> TRUE]
    /\ sessions = {}
    /\ pending = {}
    /\ testOrderCounter = 0
    /\ now = 1
    /\ ev = NoEv
    /\ fx = <<>>
    /\ outbox = Quiet

Init == InitOf(Variants)

-----------------------------------------------------------------------------
(* Display sessions *)

\* the orders a SYNC_STATE message lists
SyncList(v, store) ==
    CASE v \in {"p000a", "p006"} ->
            SelectSeq(Values(store), LAMBDA o : o.status # "done" /\ o.status # "cancelled")
      [] v = "p004b" ->
            SelectSeq(Values(store), LAMBDA o : o.status # "ready" /\ o.status # "cancelled")
      [] v = "srv1" ->
            \* JSON.stringify leaves out a property whose value is a function
            Values(SelectSeq(store, LAMBDA e : e.k \notin Inherited))
      [] OTHER -> Values(store)

SyncType(v) == IF v \in {"srv1", "p003", "p005"} THEN "SYNC" ELSE "SYNC_STATE"

\* wss.on("connection"): every version but p002a / p002b sends the state at once
Connect(s) ==
    /\ s \notin sessions
    /\ sessions' = sessions \cup {s}
    /\ ev' = [NoEv EXCEPT !.kind = "connect", !.sess = s]
    /\ IF variant \in {"p002a", "p002b"}
       THEN fx' = <<>> /\ outbox' = Quiet
       ELSE /\ fx' = <<"send">>
            /\ outbox' = SendTo(s, SyncMsg(SyncType(variant), SyncList(variant, orders)))
    /\ UNCHANGED <<variant, proc, orders, disk, pending, testOrderCounter, now>>

\* ws.on("close")
Close(s) ==
    /\ s \in sessions
    /\ sessions' = sessions \ {s}
    /\ ev' = [NoEv EXCEPT !.kind = "close", !.sess = s]
    /\ fx' = <<>>
    /\ outbox' = Quiet
    /\ UNCHANGED <<variant, proc, orders, disk, pending, testOrderCounter, now>>

\* a SYNC_REQUEST message from session s
SyncRequest(s) ==
    /\ s \in sessions
    /\ ev' = [NoEv EXCEPT !.kind = "SYNC_REQUEST", !.sess = s]
    /\ fx' = <<"send">>
    /\ outbox' = SendTo(s, SyncMsg("SYNC_STATE", SyncList(variant, orders)))
    /\ UNCHANGED <<variant, proc, orders, disk, sessions, pending, testOrderCounter, now>>

-----------------------------------------------------------------------------
(* POST /square/webhook in the merging versions *)

\* the part of the handler after the order-detail fetch: read the store, merge,
\* write, save, broadcast, acknowledge
WebhookApply(orderId, state, full, how) ==
    LET existing == Get(orders, orderId)
        merged == Merged(variant, orderId, state, full, existing, now)
        store == Put(orders, orderId, merged)
        \* an error thrown after the store write skips the broadcast and is
        \* answered by the handler's catch
        shows == /\ shouldBroadcast(variant, existing.status, merged.status)
                 /\ ~saveThrows(variant, disk.writable)
        cancelling == IsCancelling(StateFromSquare(variant, state))
        \* this request and the one applied in the step before were both
        \* waiting for their fetch, for the same order, one of them cancelling
        raced == /\ how # "inline"
                 /\ ev.kind = "webhook" /\ ev.arg # "inline" /\ ev.key = orderId
                 /\ ev.cancelling # cancelling
    IN  /\ \/ orderId \in Keys(orders)
           \/ Len(orders) < (IF orderId \in SourceIds THEN MaxOrders ELSE MaxStore)
        /\ orders' = store
        /\ now' = IF existing.createdAt # 0 THEN now ELSE Tick(now)
        /\ disk' = [disk EXCEPT !.file = saveKDSState(variant, store, disk.file, disk.writable)]
        /\ ev' = [Handled("webhook", NoRef, orderId, orders, merged)
                     EXCEPT !.arg = how, !.cancelling = cancelling, !.raced = raced]
        /\ fx' = <<"write">> \o SaveFx(variant)
                 \o (IF shows THEN <<"broadcast">> ELSE <<>>) \o <<"ack200">>
        /\ outbox' = IF shows THEN broadcast(sessions, OrderMsg("NEW_ORDER", merged)) ELSE Quiet

\* the early returns: no order wrapper, or no order id
Dropped(p, orderId) == ~p.wrapper \/ ~Truthy(orderId)

\* the handler up to its first suspension point
WebhookReceive(p) ==
    /\ variant \in MergeVariants
    /\ UNCHANGED <<variant, proc, sessions, testOrderCounter>>
    /\ LET orderId == IF p.order.present /\ Truthy(p.order.id) THEN p.order.id ELSE p.order_id
           state == IF p.order.present /\ Truthy(p.order.state) THEN p.order.state ELSE p.state
       IN  IF Dropped(p, orderId)
           THEN \* no order wrapper, or no order id: acknowledged and dropped
                /\ ev' = [NoEv EXCEPT !.kind = "webhookDropped",
                                      !.arg = IF p.wrapper THEN "noOrderId" ELSE "noWrapper"]
                /\ fx' = <<"ack200">>
                /\ outbox' = Quiet
                /\ UNCHANGED <<orders, disk, pending, now>>
           ELSE IF ~p.order.present \/ ~p.order.hasLineItems
           THEN \* await fetchOrderFromSquare(orderId)
                /\ Cardinality(pending) < MaxPending
                /\ pending' = pending \cup {[orderId |-> orderId, state |-> state, full |-> p.order]}
                /\ ev' = [NoEv EXCEPT !.kind = "webhookAwait"]
                /\ fx' = <<"fetch">>
                /\ outbox' = Quiet
                /\ UNCHANGED <<orders, disk, now>>
           ELSE /\ WebhookApply(orderId, state, p.order, "inline")
                /\ UNCHANGED pending

\* a second request for an order arrives while the first still waits for its
\* fetch, one of the two cancelling and the other not; it waits for its own fetch
WebhookOverlap(p) ==
    LET orderId == IF p.order.present /\ Truthy(p.order.id) THEN p.order.id ELSE p.order_id
        state == IF p.order.present /\ Truthy(p.order.state) THEN p.order.state ELSE p.state
    IN  /\ variant \in MergeVariants
        /\ ~Dropped(p, orderId)
        /\ ~p.order.present \/ ~p.order.hasLineItems
        /\ Cardinality(pending) < MaxOverlap
        /\ \E q \in pending :
              /\ q.orderId = orderId
              /\ IsCancelling(StateFromSquare(variant, q.state))
                    # IsCancelling(StateFromSquare(variant, state))
        /\ pending' = pending \cup {[orderId |-> orderId, state |-> state, full |-> p.order]}
        /\ ev' = [NoEv EXCEPT !.kind = "webhookAwait"]
        /\ fx' = <<"fetch">>
        /\ outbox' = Quiet
        /\ UNCHANGED <<variant, proc, orders, disk, sessions, testOrderCounter, now>>

\* a request for a second order of the source, once the store holds an order
WebhookSecond(p) ==
    /\ p \in SecondPayloads
    /\ orders # <<>>
    /\ WebhookReceive(p)

\* the fetch has ended (with an order, or with null on any failure) and the
\* handler goes on
WebhookResume(q, fetched) ==
    /\ variant \in MergeVariants
    /\ q \in pending
    /\ pending' = pending \ {q}
    /\ WebhookApply(q.orderId, q.state, IF fetched.present THEN fetched ELSE q.full,
                     IF fetched.present THEN "fetched" ELSE "fetchFailed")
    /\ UNCHANGED <<variant, proc, sessions, testOrderCounter>>

-----------------------------------------------------------------------------
(* Messages from the displays *)

\* what a display message names: an order id, an order number, or both
Ref(orderId, orderNumber) == [orderId |-> orderId, orderNumber |-> orderNumber]

\* the references a display can send: the numbers and ids of the orders it was
\* shown, and a number the server has never issued
Refs(v, store) ==
    { Ref(Undef, n) : n \in {store[i].o.orderNumber : i \in 1..Len(store)} \cup {"404"} }
    \cup (IF v \in {"p000a", "p006", "srv1"}
          THEN { Ref(k, Undef) : k \in Keys(store) \cup {"gone"} }
          ELSE {})
    \cup (IF v = "srv1" THEN { Ref(k, Undef) : k \in Inherited } ELSE {})

\* the key of the order a message of the given type is applied to, Undef when
\* the handler finds none
Target(v, type, ref, store) ==
    LET byNumber == IF Truthy(ref.orderNumber) THEN FindByNumber(store, ref.orderNumber) ELSE Undef
        byKey(k) == IF Truthy(k) /\ k \in Keys(store) THEN k ELSE Undef
    IN  CASE v = "srv1" -> IF ref.orderId \in Inherited THEN ref.orderId ELSE byKey(ref.orderId)
          [] v = "p000a" -> IF Truthy(ref.orderId) THEN byKey(ref.orderId) ELSE byNumber
          [] v = "p006" -> IF type = "ORDER_READY" THEN byNumber ELSE byKey(ref.orderId)
          [] v \in {"p002a", "p002b"} ->
                IF byKey(ref.orderNumber) # Undef
                   /\ Get(store, ref.orderNumber).status \in {"done", "cancelled"}
                THEN Undef
                ELSE byKey(ref.orderNumber)
          [] v = "p000b" ->
                IF type = "ORDER_REACTIVATED"
                   /\ Get(store, ref.orderNumber).status \notin {"done", "cancelled"}
                THEN Undef
                ELSE byKey(ref.orderNumber)
          [] v = "p004a" -> byKey(ref.orderNumber)
          [] OTHER -> byNumber

\* the status a display message sets
StatusSet(v, type) ==
    CASE type = "ORDER_READY" -> "ready"
      [] type = "ORDER_REACTIVATED" -> IF v \in {"srv3", "p004b"} THEN "new" ELSE "in-progress"
      [] type = "ORDER_CANCELLED" -> "cancelled"
      [] type = "ORDER_SKIPPED_DONE" -> "done"

\* items.map(item => ({ ...item, completed: false }))
ResetCompleted(items) == [i \in 1..Len(items) |-> [items[i] EXCEPT !.completed = FALSE]]

\* Marked with mark-ready completing every item
MarkedForcing(v, type, order) ==
    [order EXCEPT !.status = StatusSet(v, type),
                  !.items = IF type = "ORDER_READY"
                            THEN [i \in 1..Len(order.items) |-> [order.items[i] EXCEPT !.completed = TRUE]]
                            ELSE order.items]

\* the order after a status message
Marked(v, type, order) ==
    [order EXCEPT !.status = StatusSet(v, type),
                  !.items = IF v = "srv3" /\ type = "ORDER_REACTIVATED"
                            THEN ResetCompleted(order.items) ELSE order.items]

\* the message a status handler broadcasts
StatusReply(v, type, ref, order) ==
    CASE type = "ORDER_READY" /\ v # "srv3" ->
            NumberMsg("ORDER_READY_CONFIRM",
                      IF v \in NumberKeyed THEN ref.orderNumber ELSE order.orderNumber)
      [] type # "ORDER_READY" /\ v = "p000b" ->
            [NumberMsg("ORDER_STATUS_UPDATE", ref.orderNumber) EXCEPT !.status = order.status]
      [] OTHER -> OrderMsg("NEW_ORDER", order)

\* a status message: find the order, set its status, save, broadcast
StatusMessage(type, ref, bad) ==
    LET key == Target(variant, type, ref, orders)
        order == Marked(variant, type, Get(orders, key))
        store == Put(orders, key, order)
    IN  /\ sessions # {}
        /\ ref \in Refs(variant, orders)
        /\ UNCHANGED <<variant, proc, sessions, pending, testOrderCounter, now>>
        /\ IF key = Undef
           THEN /\ ev' = Ignored(type, ref)
                /\ fx' = <<>>
                /\ outbox' = Quiet
                /\ UNCHANGED <<orders, disk>>
           ELSE /\ orders' = store
                /\ disk' = [disk EXCEPT !.file = saveKDSState(variant, store, disk.file, disk.writable)]
                /\ ev' = [Handled(type, ref, key, orders, order)
                             EXCEPT !.sess = bad,
                                    !.arg = IF bad = Undef THEN "none" ELSE "sendFailed"]
                /\ IF saveThrows(variant, disk.writable)
                   THEN \* caught by the message handler's catch
                        fx' = <<"write">> \o SaveFx(variant) /\ outbox' = Quiet
                   ELSE /\ fx' = <<"write">> \o SaveFx(variant) \o <<"broadcast">>
                        /\ outbox' \in Sends(sessions, StatusReply(variant, type, ref, order), bad)

OrderReady(ref) == StatusMessage("ORDER_READY", ref, Undef)

OrderReactivated(ref) == StatusMessage("ORDER_REACTIVATED", ref, Undef)

OrderCancelled(ref) == StatusMessage("ORDER_CANCELLED", ref, Undef)

\* ORDER_READY where client.send throws for the open session bad
OrderReadySendFails(ref, bad) ==
    /\ bad \in sessions
    /\ Target(variant, "ORDER_READY", ref, orders) # Undef
    /\ StatusMessage("ORDER_READY", ref, bad)

OrderSkippedDone(ref) == StatusMessage("ORDER_SKIPPED_DONE", ref, Undef)

\* a display message of a type the switch has no case for: the default case
\* logs it, and nothing else happens
UnknownMessage(type, ref) ==
    /\ sessions # {}
    /\ ref \in Refs(variant, orders)
    /\ ev' = Ignored(type, ref)
    /\ fx' = <<>>
    /\ outbox' = Quiet
    /\ UNCHANGED <<variant, proc, orders, disk, sessions, pending, testOrderCounter, now>>

\* the item indexes a display sends in ITEM_COMPLETED: the first item, the
\* second, and one past every list
ItemIndexes == {0, 1, 9}

\* the positions of the items a display names in TOGGLE_ITEM: every item of a
\* test order, and one past the list for an id no item has
ToggleIndexes == {0, 1, 2, 3, 9}

\* ItemMarked with promotion to ready once every item is completed
ItemMarkedPromoting(order, itemIndex, completed) ==
    LET items == [order.items EXCEPT ![itemIndex + 1].completed = completed]
    IN  [order EXCEPT !.items = items,
                      !.status = IF EveryCompleted(items) THEN "ready"
                                 ELSE IF completed /\ order.status = "new" THEN "in-progress"
                                 ELSE order.status]

\* the order after ITEM_COMPLETED for the (0-based) item index
ItemMarked(order, itemIndex, completed) ==
    [order EXCEPT !.items[itemIndex + 1].completed = completed,
                  !.status = IF completed /\ order.status = "new" THEN "in-progress"
                             ELSE order.status]

\* ITEM_COMPLETED
ItemCompleted(ref, itemIndex, completed) ==
    LET key == Target(variant, "ITEM_COMPLETED", ref, orders)
        found == key # Undef /\ itemIndex + 1 <= Len(Get(orders, key).items)
        order == ItemMarked(Get(orders, key), itemIndex, completed)
    IN  /\ variant = "srv3"
        /\ sessions # {}
        /\ ref \in Refs(variant, orders)
        /\ UNCHANGED <<variant, proc, sessions, pending, testOrderCounter, now, disk>>
        /\ IF ~found
           THEN /\ ev' = Ignored("ITEM_COMPLETED", ref)
                /\ fx' = <<>>
                /\ outbox' = Quiet
                /\ UNCHANGED orders
           ELSE /\ orders' = Put(orders, key, order)
                /\ ev' = Handled("ITEM_COMPLETED", ref, key, orders, order)
                /\ fx' = <<"write", "broadcast">>
                /\ outbox' = broadcast(sessions,
                       [NoMsg EXCEPT !.type = "ITEM_COMPLETED_CONFIRM",
                                     !.orderNumber = ref.orderNumber,
                                     !.itemIndex = itemIndex,
                                     !.completed = completed,
                                     !.allCompleted = EveryCompleted(order.items),
                                     !.order = IF order.status # Get(orders, key).status
                                               THEN order ELSE NoOrder])

-----------------------------------------------------------------------------
(* The first version of src/server.js: orders keyed by id, item-level bumping. *)
(* Its order.id / order.displayId are the model's orderId / orderNumber, and   *)
(* an item's status 'done' / 'pending' is the model's completed TRUE / FALSE.  *)

\* { type: 'ORDER_UPDATE', order } as JSON.stringify sends it: an order that is
\* a function is left out
UpdateMsg(key, order) ==
    IF key \in Inherited THEN [NoMsg EXCEPT !.type = "ORDER_UPDATE"]
    ELSE OrderMsg("ORDER_UPDATE", order)

\* the values a display can send as payload.status: the handler takes any
ClientStatuses == Statuses \cup {"served"}

\* WithStatus that stamps completedAt whatever the status
WithStatusStamped(order, status, t) == [order EXCEPT !.status = status, !.completedAt = t]

\* order.status = payload.status, and completedAt set to the time for done
\* and deleted (0) for any other status
WithStatus(order, status, t) ==
    [order EXCEPT !.status = status,
                  !.completedAt = IF status = "done" THEN t ELSE 0]

\* { action: 'SET_STATUS', orderId, payload: { status } }
SetStatus(ref, status) ==
    LET key == Target(variant, "SET_STATUS", ref, orders)
        order == WithStatus(Get(orders, key), status, now)
    IN  /\ variant = "srv1"
        /\ sessions # {}
        /\ ref \in Refs(variant, orders)
        /\ (key = Undef \/ key \in Keys(orders) \/ Len(orders) < MaxOrders)
        /\ UNCHANGED <<variant, proc, sessions, pending, testOrderCounter, now, disk>>
        /\ IF key = Undef
           THEN /\ ev' = Ignored("SET_STATUS", ref)
                /\ fx' = <<>>
                /\ outbox' = Quiet
                /\ UNCHANGED orders
           ELSE /\ orders' = Put(orders, key, order)
                /\ ev' = Handled("SET_STATUS", ref, key, orders, order)
                /\ fx' = <<"write", "broadcast">>
                /\ outbox' = broadcast(sessions, UpdateMsg(key, order))

\* { action: 'SET_STATUS', orderId } with no payload: for an order the handler
\* finds, payload.status throws before anything is set, and the error is caught
SetStatusNoPayload(ref) ==
    LET key == Target(variant, "SET_STATUS", ref, orders)
    IN  /\ variant = "srv1"
        /\ sessions # {}
        /\ ref \in Refs(variant, orders)
        /\ ev' = [Ignored("SET_STATUS", ref)
                     EXCEPT !.arg = IF key = Undef THEN "none" ELSE "threw"]
        /\ fx' = <<>>
        /\ outbox' = Quiet
        /\ UNCHANGED <<variant, proc, orders, disk, sessions, pending, testOrderCounter, now>>

\* { action: 'TOGGLE_ITEM', orderId, itemId }: itemIndex is the position of the
\* item with that id, past the list when no item has it
ToggleItem(ref, itemIndex) ==
    LET key == Target(variant, "TOGGLE_ITEM", ref, orders)
        old == Get(orders, key)
        order == IF itemIndex + 1 <= Len(old.items)
                 THEN [old EXCEPT !.items[itemIndex + 1].completed = ~old.items[itemIndex + 1].completed]
                 ELSE old
    IN  /\ variant = "srv1"
        /\ sessions # {}
        /\ ref \in Refs(variant, orders)
        /\ UNCHANGED <<variant, proc, sessions, pending, testOrderCounter, now, disk>>
        /\ IF key = Undef \/ ~old.hasItems
           THEN \* no order, or order.items.find throws and the error is caught
                /\ ev' = [Ignored("TOGGLE_ITEM", ref)
                             EXCEPT !.arg = IF key = Undef THEN "none" ELSE "threw"]
                /\ fx' = <<>>
                /\ outbox' = Quiet
                /\ UNCHANGED orders
           ELSE /\ orders' = Put(orders, key, order)
                /\ ev' = Handled("TOGGLE_ITEM", ref, key, orders, order)
                /\ fx' = <<"write", "broadcast">>
                /\ outbox' = broadcast(sessions, OrderMsg("ORDER_UPDATE", order))

\* POST /webhook: acknowledged, nothing else
WebhookAck ==
    /\ variant = "srv1"
    /\ ev' = [NoEv EXCEPT !.kind = "webhookAck"]
    /\ fx' = <<"ack200">>
    /\ outbox' = Quiet
    /\ UNCHANGED <<variant, proc, orders, disk, sessions, pending, testOrderCounter, now>>

-----------------------------------------------------------------------------
(* POST /square/webhook in the first program of part_004: only order.created, *)
(* the store keyed by the order number                                        *)

\* the request bodies: another event type, order.created without an order
\* object, and order.created with an order (numbered by its id, or by a
\* ticket name, or with neither)
CreatedEvents ==
    { [type |-> "order.updated", order |-> NoFull],
      [type |-> "order.created", order |-> NoFull] }
    \cup { [type |-> "order.created", order |-> o] :
               o \in { FullWith("sq-ord-a1", "OPEN", Undef, TRUE,
                                << LineItem("Dog", Undef, QNum(2), FALSE, <<>>) >>, Undef, Undef),
                       FullWith(Undef, "OPEN", Undef, TRUE, LiOne, Undef, Undef),
                       [FullWith("sq-ord-a1", "OPEN", Undef, FALSE, <<>>, Undef, Undef)
                           EXCEPT !.ticket_name = "Order #155"] } }

\* the order number: ticket name, else the last four characters of the id,
\* reduced to its first run of digits when it has one
CreatedOrderNumber(order) ==
    LET raw == OrElse(order.ticket_name, IF Truthy(order.id) THEN Slice4(order.id) ELSE "0000")
    IN  OrElse(FirstDigits(raw), raw)

\* li.quantity kept as sent: the model writes a numeric string by its value,
\* any other string as NaN, null as NullNum
RawQuantity(q) ==
    CASE q.t = "number" -> q.n
      [] q.t = "string" -> NumberOfString(q.s)
      [] OTHER -> NullNum

\* { name: li.name, quantity: li.quantity, note: li.note || null }
CreatedItems(order) ==
    IF order.hasLineItems
    THEN [i \in 1..Len(order.line_items) |->
             Item(order.line_items[i].name, RawQuantity(order.line_items[i].quantity), <<>>, FALSE)]
    ELSE <<>>

\* the order the handler stores
CreatedOrder(order, t) ==
    [NoOrder EXCEPT !.orderNumber = CreatedOrderNumber(order),
                    !.status = "new",
                    !.createdAt = t,
                    !.itemCount = IF order.hasLineItems THEN Len(order.line_items) ELSE NullNum,
                    !.items = CreatedItems(order),
                    !.hasItems = TRUE]

WebhookCreated(e) ==
    LET order == CreatedOrder(e.order, now)
        key == order.orderNumber
    IN  /\ variant = "p004a"
        /\ UNCHANGED <<variant, proc, disk, sessions, pending, testOrderCounter>>
        /\ IF e.type # "order.created"
           THEN \* not an event the handler cares about
                /\ ev' = [NoEv EXCEPT !.kind = "webhookDropped", !.arg = "otherType"]
                /\ fx' = <<"ack200">>
                /\ outbox' = Quiet
                /\ UNCHANGED <<orders, now>>
           ELSE IF ~e.order.present
           THEN \* event.data.object.order is undefined: order.ticket_name throws,
                \* and the catch answers 500
                /\ ev' = [NoEv EXCEPT !.kind = "webhookError", !.arg = "noWrapper"]
                /\ fx' = <<"ack500">>
                /\ outbox' = Quiet
                /\ UNCHANGED <<orders, now>>
           ELSE /\ (key \in Keys(orders) \/ Len(orders) < MaxOrders)
                /\ orders' = Put(orders, key, order)
                /\ now' = Tick(now)
                /\ ev' = [Handled("webhook", NoRef, key, orders, order)
                             EXCEPT !.arg = IF Truthy(e.order.id) THEN "order" ELSE "noOrderId"]
                /\ fx' = <<"write", "broadcast", "ack200">>
                \* the message carries no status
                /\ outbox' = broadcast(sessions, OrderMsg("NEW_ORDER", [order EXCEPT !.status = Undef]))

-----------------------------------------------------------------------------
(* Test orders *)

TicketVariants == {"srv2", "srv3", "p000a", "p001", "p004b", "p006"}

TicketWrap == 999

\* getNextTestTicketNumber(): the counter after the call
NextTicket(counter) == IF counter + 1 > TicketWrap THEN 1 ELSE counter + 1

\* the numbers Math.random() yields in the model
RandomNumbers == {"155", "156"}

\* the outcomes of the random choice among the four fulfillmentOptions
FulfillmentPicks(v) ==
    {"PICKUP / TO GO", IF v = "p004b" THEN "FOR HERE (Default)" ELSE "Dine In"}

TestNote ==
    "Customer requested extra napkins and cutlery for 4 people. Please ring the bell when order is ready."

NewItem(name, quantity, modifiers) == Item(name, quantity, modifiers, FALSE)

\* the items of a test order
TestItems(v) ==
    CASE v = "srv1" ->
            << NewItem("Classic Vertidog", 2, <<"Ketchup", "Mustard", "Grilled Onions">>),
               NewItem("Veggie Vertidog", 1, <<"No Cheese", "Extra Pickles", "Gluten Free Bun">>),
               NewItem("Lrg. Fries", 1, <<"Well Done", "Side Ranch">>),
               NewItem("Chocolate Shake", 1, <<>>) >>
      [] v \in {"srv2", "p004b"} ->
            << NewItem("VertiDog - Classic", 4, <<"Mustard", "Ketchup", "Grilled Onions", "No Relish">>),
               NewItem("Chili Cheese Fries", 2, <<"Extra Chili", "Side of Ranch", "No Jalapenos", "Heavy Cheese">>),
               NewItem("Large Soda - Coke", 3, <<"Two 20oz", "One 32oz">>),
               NewItem("Large Soda - Sprite", 3, <<>>),
               NewItem("Double Bacon Burger", 3, <<"Medium Rare", "Add Avocado", "Extra Crispy Bacon", "Side of Mayo">>),
               NewItem("Onion Rings", 1, <<"Well Done", "Large Size", "Dipping Sauce: BBQ, Honey Mustard, Sweet Chili">>),
               NewItem("Water Bottle", 8, <<>>),
               NewItem("Kids Meal - Hot Dog", 2, <<"Toy: Dinosaur">>),
               NewItem("Milkshake (Chocolate)", 2, <<"Extra Thick", "Whipped Cream", "Cherry">>) >>
      [] v = "srv3" ->
            << NewItem("VertiDog - Classic", 4, <<"Mustard", "Ketchup", "Grilled Onions">>),
               NewItem("Chili Cheese Fries", 2, <<"Extra Chili", "Side of Ranch">>),
               NewItem("Large Soda - Coke", 3, <<"Two 20oz", "One 32oz">>),
               NewItem("Double Bacon Burger", 3, <<"Medium Rare", "Add Avocado">>) >>
      [] v \in {"p002a", "p002b"} ->
            << NewItem("Classic Vertidog", 2, <<"Ketchup", "Grilled Onions", "Add Chili">>),
               NewItem("Veggie Vertidog", 1, <<"No Cheese", "Extra Pickles">>),
               NewItem("Large Soda", 3, <<"Coke", "Sprite", "Diet Coke">>),
               NewItem("Side Fries", 1, <<>>) >>
      [] v = "p003" ->
            << NewItem("Classic (VertiDog)", 1, <<"Garlic White VertiSauce", "Ketchup">>),
               NewItem("Coca-Cola (Soda)", 1, <<>>) >>
      [] v = "p005" ->
            << NewItem("Hot Dog", 1, <<>>), NewItem("Coke", 1, <<>>) >>
      [] OTHER ->
            << NewItem("Hot Dog", 1, <<"No Pickle", "Extra Ketchup">>),
               NewItem("Coke", 1, <<>>),
               NewItem("Fries", 2, <<"Well Done">>) >>

\* the itemCount of a test order
TestItemCount(v) ==
    CASE v = "p000b" -> 4
      [] v = "p005" -> Len(TestItems(v))
      [] OTHER -> SumQuantity(TestItems(v))

\* the order a test request builds; r is the random number, f the random
\* fulfillment, ticket the counter after getNextTestTicketNumber()
TestOrderOf(v, ticket, r, f, t) ==
    [NoOrder EXCEPT
        !.orderId = CASE v \in TicketVariants -> "TEST-" \o PadStart3(ticket) \o "-" \o NumStr(t)
                      [] v \in {"p003", "p005"} -> "TEST-" \o r
                      [] v = "srv1" -> "ord_" \o NumStr(t)
                      [] OTHER -> Undef,
        !.orderNumber = IF v \in TicketVariants THEN PadStart3(ticket) ELSE r,
        !.status = "new",
        !.createdAt = t,
        !.items = TestItems(v),
        !.hasItems = TRUE,
        !.itemCount = TestItemCount(v),
        !.stateFromSquare = IF v = "p003" THEN "open" ELSE Undef,
        !.fulfillmentType = IF HasMeta(v) THEN f ELSE Undef,
        !.orderNote = IF HasMeta(v) THEN TestNote ELSE Undef]

\* the store key of a test order
TestKey(v, order) == IF v \in NumberKeyed THEN order.orderNumber ELSE order.orderId

\* write the test order, save, broadcast
CreateTestOrder(order, counter) ==
    LET key == TestKey(variant, order)
        store == Put(orders, key, order)
    IN  /\ (key \in Keys(orders) \/ Len(orders) < MaxOrders)
        /\ orders' = store
        /\ testOrderCounter' = counter
        /\ disk' = [disk EXCEPT !.file = saveKDSState(variant, store, disk.file, disk.writable)]
        /\ ev' = Handled("testOrder", NoRef, key, orders, order)
        /\ IF saveThrows(variant, disk.writable)
           THEN fx' = <<"write">> \o SaveFx(variant) /\ outbox' = Quiet
           ELSE /\ fx' = <<"write">> \o SaveFx(variant) \o <<"broadcast">>
                /\ outbox' = broadcast(sessions,
                        OrderMsg(IF variant = "srv1" THEN "ORDER_UPDATE" ELSE "NEW_ORDER", order))
        /\ UNCHANGED <<variant, proc, sessions, pending>>

\* GET /test-order in the versions with a ticket counter
TestOrderTicket(f) ==
    /\ variant \in TicketVariants
    /\ testOrderCounter < MaxTickets
    /\ f \in FulfillmentPicks(variant)
    /\ CreateTestOrder(TestOrderOf(variant, NextTicket(testOrderCounter), Undef, f, now),
                       NextTicket(testOrderCounter))
    /\ now' \in {now, Tick(now)}

\* GET /test-order in the versions that draw a random order number
TestOrderRandom(r) ==
    /\ variant \in {"srv1", "p002a", "p002b", "p003", "p005"}
    /\ r \in RandomNumbers
    /\ CreateTestOrder(TestOrderOf(variant, 0, r, Undef, now), testOrderCounter)
    /\ now' \in {now, Tick(now)}

\* the SIMULATE_NEW_ORDER message
SimulateNewOrder(r) ==
    /\ variant = "p000b"
    /\ sessions # {}
    /\ r \in RandomNumbers
    /\ CreateTestOrder(TestOrderOf(variant, 0, r, Undef, now), testOrderCounter)
    /\ now' \in {now, Tick(now)}

-----------------------------------------------------------------------------
(* The process and its state file *)

\* the process exits (killed, or crashed): memory, sessions and requests in
\* flight are gone, the file stays
Stop ==
    /\ proc \in {"up", "broken"}
    /\ proc' = "down"
    /\ orders' = <<>>
    /\ sessions' = {}
    /\ pending' = {}
    /\ testOrderCounter' = 0
    /\ ev' = [NoEv EXCEPT !.kind = "stop"]
    /\ fx' = <<>>
    /\ outbox' = Quiet
    /\ UNCHANGED <<variant, disk, now>>

\* while the process is down the file is deleted, or left empty, truncated or
\* overwritten
Damage(file) ==
    /\ proc = "down"
    /\ disk.file # file
    /\ disk' = [disk EXCEPT !.file = file]
    /\ ev' = [NoEv EXCEPT !.kind = "damage", !.arg = file.content]
    /\ fx' = <<>>
    /\ outbox' = Quiet
    /\ UNCHANGED <<variant, proc, orders, sessions, pending, testOrderCounter, now>>

\* the process starts: module initialisation, with loadKDSState()
Start ==
    LET loaded == loadKDSState(variant, disk.file)
    IN  /\ proc = "down"
        /\ proc' = IF loaded.usable THEN "up" ELSE "broken"
        /\ orders' = loaded.store
        /\ disk' = [disk EXCEPT !.file = StartFile(variant, disk.file, disk.writable)]
        /\ ev' = [NoEv EXCEPT !.kind = "start", !.arg = disk.file.content]
        /\ fx' = <<"load">>
        /\ outbox' = Quiet
        /\ UNCHANGED <<variant, sessions, pending, testOrderCounter, now>>

\* writes to the state file start to fail (disk full, no permission); the
\* model lets this happen while the store is still empty, so that the file
\* stays the one the process started with
DiskFault ==
    /\ disk.writable
    /\ proc = "up"
    /\ orders = <<>>
    /\ disk' = [disk EXCEPT !.writable = FALSE]
    /\ ev' = [NoEv EXCEPT !.kind = "diskFault"]
    /\ fx' = <<>>
    /\ outbox' = Quiet
    /\ UNCHANGED <<variant, proc, orders, sessions, pending, testOrderCounter, now>>

\* the files Damage leaves
DamagedFiles == {NoFile} \cup {DamagedFile(kind) : kind \in Damages}

\* the life of the process of a version that keeps a state file
NextLife(v) ==
    \/ variant = v /\ Stop
    \/ variant = v /\ \E file \in DamagedFiles : Damage(file)
    \/ variant = v /\ Start

\* the disk under a version that keeps a state file
NextDisk(v) == variant = v /\ DiskFault

-----------------------------------------------------------------------------
(* The next-state relation of each version *)

AllRefs == Refs(variant, orders)

\* the running process is version v
Running(v) == variant = v /\ proc = "up"

\* the first version of src/server.js
NextSrv1 ==
    \/ Running("srv1") /\ \E s \in Sessions : Connect(s)
    \/ Running("srv1") /\ \E s \in Sessions : Close(s)
    \/ Running("srv1") /\ WebhookAck
    \/ Running("srv1") /\ \E r \in RandomNumbers : TestOrderRandom(r)
    \/ Running("srv1") /\ \E ref \in AllRefs, st \in ClientStatuses : SetStatus(ref, st)
    \/ Running("srv1") /\ \E ref \in AllRefs : SetStatusNoPayload(ref)
    \/ Running("srv1") /\ \E ref \in AllRefs, i \in ToggleIndexes : ToggleItem(ref, i)

\* the second version of src/server.js
NextSrv2 ==
    \/ Running("srv2") /\ \E s \in Sessions : Connect(s)
    \/ Running("srv2") /\ \E s \in Sessions : Close(s)
    \/ Running("srv2") /\ \E s \in Sessions : SyncRequest(s)
    \/ Running("srv2") /\ \E p \in Payloads : WebhookReceive(p)
    \/ Running("srv2") /\ \E q \in pending : \E f \in Fetched(q.orderId) : WebhookResume(q, f)
    \/ Running("srv2") /\ \E f \in FulfillmentPicks(variant) : TestOrderTicket(f)
    \/ Running("srv2") /\ \E ref \in AllRefs : OrderReady(ref)
    \/ Running("srv2") /\ \E ref \in AllRefs : OrderReactivated(ref)
    \/ Running("srv2") /\ \E ref \in AllRefs : OrderCancelled(ref)

\* the third version of src/server.js
NextSrv3 ==
    \/ Running("srv3") /\ \E s \in Sessions : Connect(s)
    \/ Running("srv3") /\ \E s \in Sessions : Close(s)
    \/ Running("srv3") /\ \E s \in Sessions : SyncRequest(s)
    \/ Running("srv3") /\ \E p \in Payloads : WebhookReceive(p)
    \/ Running("srv3") /\ \E q \in pending : \E f \in Fetched(q.orderId) : WebhookResume(q, f)
    \/ Running("srv3") /\ \E f \in FulfillmentPicks(variant) : TestOrderTicket(f)
    \/ Running("srv3") /\ \E ref \in AllRefs : OrderReady(ref)
    \/ Running("srv3") /\ \E ref \in AllRefs : OrderReactivated(ref)
    \/ Running("srv3") /\ \E ref \in AllRefs : OrderCancelled(ref)
    \/ Running("srv3") /\ \E ref \in AllRefs, i \in ItemIndexes, c \in BOOLEAN : ItemCompleted(ref, i, c)

\* part_000 (first program), part_001, part_006
NextDone(v) ==
    \/ Running(v) /\ \E s \in Sessions : Connect(s)
    \/ Running(v) /\ \E s \in Sessions : Close(s)
    \/ Running(v) /\ \E s \in Sessions : SyncRequest(s)
    \/ Running(v) /\ \E p \in Payloads : WebhookReceive(p)
    \/ Running(v) /\ \E q \in pending : \E f \in Fetched(q.orderId) : WebhookResume(q, f)
    \/ Running(v) /\ \E f \in FulfillmentPicks(variant) : TestOrderTicket(f)
    \/ Running(v) /\ \E ref \in AllRefs : OrderReady(ref)
    \/ Running(v) /\ \E ref \in AllRefs : OrderReactivated(ref)
    \/ Running(v) /\ \E ref \in AllRefs : OrderSkippedDone(ref)

\* part_000 (second program)
NextP000b ==
    \/ Running("p000b") /\ \E s \in Sessions : Connect(s)
    \/ Running("p000b") /\ \E s \in Sessions : Close(s)
    \/ Running("p000b") /\ \E s \in Sessions : SyncRequest(s)
    \/ Running("p000b") /\ \E r \in RandomNumbers : SimulateNewOrder(r)
    \/ Running("p000b") /\ \E ref \in AllRefs : OrderReady(ref)
    \/ Running("p000b") /\ \E ref \in AllRefs : OrderReactivated(ref)
    \/ Running("p000b") /\ \E ref \in AllRefs : OrderCancelled(ref)

\* part_002 (both programs)
NextP002(v) ==
    \/ Running(v) /\ \E s \in Sessions : Connect(s)
    \/ Running(v) /\ \E s \in Sessions : Close(s)
    \/ Running(v) /\ \E s \in Sessions : SyncRequest(s)
    \/ Running(v) /\ \E r \in RandomNumbers : TestOrderRandom(r)
    \/ Running(v) /\ \E ref \in AllRefs : OrderReady(ref)
    \/ Running(v) /\ \E ref \in AllRefs : OrderReactivated(ref)
    \/ Running(v) /\ \E ref \in AllRefs : OrderSkippedDone(ref)
    \/ Running(v) /\ \E ref \in AllRefs : UnknownMessage("ORDER_CANCELLED", ref)

\* part_003, part_005: no handler for display messages
NextP003(v) ==
    \/ Running(v) /\ \E s \in Sessions : Connect(s)
    \/ Running(v) /\ \E s \in Sessions : Close(s)
    \/ Running(v) /\ \E p \in Payloads : WebhookReceive(p)
    \/ Running(v) /\ \E q \in pending : \E f \in Fetched(q.orderId) : WebhookResume(q, f)
    \/ Running(v) /\ \E r \in RandomNumbers : TestOrderRandom(r)

\* part_004 (first program)
NextP004a ==
    \/ Running("p004a") /\ \E s \in Sessions : Connect(s)
    \/ Running("p004a") /\ \E s \in Sessions : Close(s)
    \/ Running("p004a") /\ \E s \in Sessions : SyncRequest(s)
    \/ Running("p004a") /\ \E e \in CreatedEvents : WebhookCreated(e)
    \/ Running("p004a") /\ \E ref \in AllRefs : OrderReady(ref)

\* part_004 (second program)
NextP004b ==
    \/ Running("p004b") /\ \E s \in Sessions : Connect(s)
    \/ Running("p004b") /\ \E s \in Sessions : Close(s)
    \/ Running("p004b") /\ \E s \in Sessions : SyncRequest(s)
    \/ Running("p004b") /\ \E p \in Payloads : WebhookReceive(p)
    \/ Running("p004b") /\ \E q \in pending : \E f \in Fetched(q.orderId) : WebhookResume(q, f)
    \/ Running("p004b") /\ \E f \in FulfillmentPicks(variant) : TestOrderTicket(f)
    \/ Running("p004b") /\ \E ref \in AllRefs : OrderReady(ref)
    \/ Running("p004b") /\ \E ref \in AllRefs : OrderReactivated(ref)
    \/ Running("p004b") /\ \E ref \in AllRefs : OrderCancelled(ref)

\* a display marks an order ready while the socket of one session fails
NextSendFault(v) == Running(v) /\ \E ref \in AllRefs, bad \in Sessions : OrderReadySendFails(ref, bad)

\* a second request for the same order while the first waits for its fetch
NextOverlap(v) == Running(v) /\ \E p \in Payloads : WebhookOverlap(p)

\* a request for a second order of the source
NextSecond(v) == Running(v) /\ \E p \in SecondPayloads : WebhookSecond(p)

Next ==
    \/ NextSrv1
    \/ NextSrv2
    \/ NextSrv3
    \/ NextDone("p000a")
    \/ NextDone("p001")
    \/ NextDone("p006")
    \/ NextP000b
    \/ NextP002("p002a")
    \/ NextP002("p002b")
    \/ NextP003("p003")
    \/ NextP003("p005")
    \/ NextP004a
    \/ NextP004b
    \/ NextLife("srv2")
    \/ NextLife("p000a")
    \/ NextLife("p000b")
    \/ NextLife("p001")
    \/ NextLife("p006")
    \/ NextSendFault("srv2")
    \/ NextOverlap("srv2")
    \/ NextSecond("srv2")
    \/ NextDisk("srv2")
    \/ NextDisk("p000a")
    \/ NextDisk("p000b")
    \/ NextDisk("p001")
    \/ NextDisk("p006")

Spec == Init /\ [][Next]_vars

\* the versions that merge source events under a status lock
NextLock == NextSrv2 \/ NextSrv3 \/ NextDone("p001") \/ NextP003("p003")

SpecLock == InitOf({"srv2", "srv3", "p001", "p003"}) /\ [][NextLock]_vars

\* the versions that save the store to disk on source events
NextPersist == NextSrv2 \/ NextDone("p001") \/ NextDone("p006")

SpecPersist == InitOf({"srv2", "p001", "p006"}) /\ [][NextPersist]_vars

\* the three versions of src/server.js
NextServer == NextSrv1 \/ NextSrv2 \/ NextSrv3

SpecServer == InitOf({"srv1", "srv2", "srv3"}) /\ [][NextServer]_vars

\* the two programs of part_002
NextRecall == NextP002("p002a") \/ NextP002("p002b")

SpecRecall == InitOf({"p002a", "p002b"}) /\ [][NextRecall]_vars

\* the two programs of part_000, stopped and started again
NextRestart ==
    \/ NextDone("p000a")
    \/ NextP000b
    \/ NextLife("p000a")
    \/ NextLife("p000b")

SpecRestart == InitOf({"p000a", "p000b"}) /\ [][NextRestart]_vars

\* the second version of src/server.js on a disk that fails
NextDiskFault == NextSrv2 \/ NextDisk("srv2")

SpecDiskFault == InitOf({"srv2"}) /\ [][NextDiskFault]_vars

\* the second version of src/server.js where a send can throw
NextSendFaulty == NextSrv2 \/ NextSendFault("srv2")

SpecSendFault == InitOf({"srv2"}) /\ [][NextSendFaulty]_vars

\* the second version of src/server.js with two requests for one order in flight
NextOverlapping == NextSrv2 \/ NextOverlap("srv2")

SpecOverlap == InitOf({"srv2"}) /\ [][NextOverlapping]_vars

\* the second version of src/server.js with two orders of the source
SpecTwoOrders == InitOf({"srv2"}) /\ [][NextSrv2 \/ NextSecond("srv2")]_vars

\* the first program of part_004 alone
SpecP004a == InitOf({"p004a"}) /\ [][NextP004a]_vars

\* the second version of src/server.js where requests and messages keep being
\* served; fetchOrderFromSquare passes no timeout or abort signal to fetch, so
\* nothing obliges a pending fetch to end
ServedSrv2 == NextSrv2 /\ pending \subseteq pending'

SpecFetch == InitOf({"srv2"}) /\ [][NextSrv2]_vars /\ WF_vars(ServedSrv2)

\* the third version of src/server.js alone
SpecSrv3 == InitOf({"srv3"}) /\ [][NextSrv3]_vars

-----------------------------------------------------------------------------
(* Properties *)

\* whether the last step had the effect e, and whether a came before b in it
Did(e) == \E i \in 1..Len(fx) : fx[i] = e

DidBefore(a, b) == \E i, j \in 1..Len(fx) : i < j /\ fx[i] = a /\ fx[j] = b

\* the order the last step wrote
After == Get(orders, ev.key)

\* the last step applied a source event to the store
SourceEvent == ev.kind = "webhook"

\* ... and that event's state was 'canceled' or 'closed'
Cancelling == IsCancelling(After.stateFromSquare)

\* the last step changed the stored order
Changed == ~ev.kept \/ After.status # ev.prevStatus

\* every open session was sent exactly the message msg by the last step
Published(msg) == \A s \in Sessions : outbox[s] = IF s \in sessions THEN <<msg>> ELSE <<>>

C3_RedundantUpdateSilent ==
    (SourceEvent /\ ev.prevStatus = "ready" /\ ~Cancelling /\ ~Changed)
        => (After.status = "ready" /\ outbox = Quiet)

C5_ObservablePublished ==
    (SourceEvent /\ (Changed \/ ~ev.existed)) => Published(OrderMsg("NEW_ORDER", After))

\* C6: a webhook update, a test order, or a display mark-ready / reactivate /
\* cancel / done that is broadcast has saved the store after writing it and
\* before broadcasting.
C6_SaveBeforeBroadcast ==
    (/\ ev.kind \in {"webhook", "testOrder", "ORDER_READY", "ORDER_REACTIVATED",
                     "ORDER_CANCELLED", "ORDER_SKIPPED_DONE"}
     /\ Did("broadcast"))
        => (DidBefore("write", "save") /\ DidBefore("save", "broadcast"))

\* an item-completion event has completed the last incomplete item of an
\* in-progress order
LastItemCompleted ==
    /\ ev.kind \in {"ITEM_COMPLETED", "TOGGLE_ITEM"}
    /\ ev.prevStatus = "in-progress"
    /\ ~ev.kept
    /\ After.items # <<>>
    /\ EveryCompleted(After.items)

C8_ReactivationReset ==
    (ev.kind = "ORDER_REACTIVATED" /\ ev.prevStatus = "cancelled")
        => (After.status = "in-progress" /\ ~SomeCompleted(After.items))

\* the key of the order a display message named
Named ==
    IF Truthy(ev.ref.orderId) THEN ev.ref.orderId
    ELSE IF variant \in NumberKeyed THEN ev.ref.orderNumber
    ELSE FindByNumber(orders, ev.ref.orderNumber)

\* the status that order had when the message arrived
NamedStatus == IF ev.key # Undef THEN ev.prevStatus ELSE Get(orders, Named).status

\* C9: a display reactivate for an order whose status is ready, done or
\* cancelled takes effect: the order is in-progress and a broadcast was made.
C9_ReactivationNeverBlocked ==
    (ev.kind = "ORDER_REACTIVATED" /\ NamedStatus \in {"ready", "done", "cancelled"})
        => (Get(orders, Named).status = "in-progress" /\ Did("broadcast"))

\* C10 as claimed: a display mark-ready on a new or in-progress order sets the
\* status to ready and completed = true on every item.
C10_MarkReadyCompletesItems ==
    (ev.kind = "ORDER_READY" /\ ev.prevStatus \in {"new", "in-progress"})
        => (After.status = "ready" /\ EveryCompleted(After.items))

\* C10 as amended: a display mark-ready on a new or in-progress order sets the
\* status to ready and leaves the items, with their completed flags, as they were.
C10_MarkReadyKeepsItems ==
    (ev.kind = "ORDER_READY" /\ ev.prevStatus \in {"new", "in-progress"})
        => (After.status = "ready" /\ ev.kept)

\* mark-ready has been applied to an in-progress order with one item completed
\* and one not
C10_Witness ==
    /\ ev.kind = "ORDER_READY" /\ ev.prevStatus = "in-progress"
    /\ After.status = "ready"
    /\ SomeCompleted(After.items) /\ ~EveryCompleted(After.items)

\* the kinds of event a display sends about one order
DisplayKinds ==
    {"ORDER_READY", "ORDER_REACTIVATED", "ORDER_CANCELLED", "ORDER_SKIPPED_DONE",
     "ITEM_COMPLETED", "SET_STATUS", "TOGGLE_ITEM"}

\* the store holds no order with the id or the number the reference names
Unknown(ref, store) ==
    /\ ref.orderId \notin Keys(store)
    /\ ref.orderNumber \notin Keys(store)
    /\ \A i \in 1..Len(store) : store[i].o.orderNumber # ref.orderNumber

\* C11: a display event that names an order id or number the store does not
\* hold leaves the store and the file as they were and sends nothing.
C11_UnknownOrderNoOp ==
    [][(ev'.kind \in DisplayKinds /\ Unknown(ev'.ref, orders))
          => (orders' = orders /\ disk' = disk /\ fx' = <<>> /\ outbox' = Quiet)]_vars

\* C12: the orders a sync request is answered with are the whole store, each
\* order once, whatever its status.
C12_SnapshotConsistency ==
    ev.kind = "SYNC_REQUEST" =>
        /\ Len(outbox[ev.sess]) = 1
        /\ outbox[ev.sess][1].orders = Values(orders)

\* C13: a session that connects is sent the whole store at once, before it
\* has sent anything.
C13_SnapshotOnConnect ==
    ev.kind = "connect" =>
        /\ Len(outbox[ev.sess]) = 1
        /\ outbox[ev.sess][1].orders = Values(orders)

\* C14: a sync request leaves the store and the file as they were, is answered
\* to the session that asked and to no other, and a second request right after
\* a first is answered with the same snapshot.
C14_SyncReadOnly ==
    [][ev'.kind = "SYNC_REQUEST" =>
          /\ orders' = orders
          /\ disk' = disk
          /\ Len(outbox'[ev'.sess]) = 1
          /\ outbox'[ev'.sess][1].type = "SYNC_STATE"
          /\ \A s \in Sessions \ {ev'.sess} : outbox'[s] = <<>>
          /\ (ev.kind = "SYNC_REQUEST" /\ Len(outbox[ev.sess]) = 1)
                => outbox'[ev'.sess][1].orders = outbox[ev.sess][1].orders]_vars

\* a sync request has been answered with a stored order while another session
\* was open
C14_Witness ==
    /\ ev.kind = "SYNC_REQUEST"
    /\ sessions = Sessions
    /\ orders # <<>>
    /\ Len(outbox[ev.sess]) = 1
    /\ outbox[ev.sess][1].orders # <<>>

\* C15: saving the store and loading the file into a fresh process gives the
\* same orders, with the same fields.
C15_RestartDurability ==
    (variant \in PersistVariants /\ proc = "up")
        => loadKDSState(variant, saveKDSState(variant, orders, NoFile, TRUE)).store = orders

\* C16: started on a state file that is missing, empty, unparseable, or JSON
\* that is no collection of orders, the process is up with an empty store.
C16_LoadFailureEmptyStore ==
    (ev.kind = "start" /\ ev.arg \in {"none"} \cup Damages)
        => (proc = "up" /\ orders = <<>>)

\* the last step called saveKDSState while writes to the file fail
SaveFailed == Did("save") /\ ~disk.writable

\* the webhook handler leaves out the broadcast of an existing order whose
\* status is unchanged and ready or cancelled
Suppressed ==
    /\ SourceEvent /\ ev.existed
    /\ After.status = ev.prevStatus /\ After.status \in {"ready", "cancelled"}

\* C17: when the write of saveKDSState fails, the store still holds the new
\* state of the order, the broadcast the event is due is still sent to every
\* open session, and a webhook is still acknowledged.
C17_SaveFailureNotBlocking ==
    SaveFailed =>
        /\ DidBefore("write", "save")
        /\ ev.key \in Keys(orders)
        /\ ~Suppressed =>
              (Did("broadcast") /\ \A s \in Sessions :
                                       Len(outbox[s]) = IF s \in sessions THEN 1 ELSE 0)
        /\ SourceEvent => Did("ack200")

\* a webhook has stored a new order and broadcast it to two open sessions
\* although the file could not be written
C17_Witness ==
    /\ SaveFailed /\ SourceEvent /\ ~ev.existed
    /\ sessions = Sessions
    /\ Did("broadcast") /\ Did("ack200")
    /\ ~disk.file.exists

\* the last step answered a webhook request
Answered == Did("ack200") \/ Did("ack500")

\* C18: every webhook request is answered with status 200, never with an
\* error status, whatever the payload and whatever goes wrong inside.
C18_WebhookAlwaysAcknowledged ==
    (ev.kind \in {"webhook", "webhookDropped", "webhookError", "webhookAck"} \/ Answered)
        => (Did("ack200") /\ ~Did("ack500"))

\* the last request was malformed: it had no order wrapper, or no order id
Malformed == ev.arg \in {"noWrapper", "noOrderId"}

\* C19: a webhook payload with no order wrapper or no order id is acknowledged
\* and leaves the store, the state file and every session untouched: no order
\* created, no save, no broadcast, no fetch issued.
C19_MalformedNoMutation ==
    [][Malformed' =>
          /\ orders' = orders
          /\ disk' = disk
          /\ pending' = pending
          /\ outbox' = Quiet
          /\ fx' = <<"ack200">>]_vars

\* the last step was a webhook whose order-detail fetch returned nothing, for
\* an order already in the store
FetchFailedOnStored == ev.kind = "webhook" /\ ev.arg = "fetchFailed" /\ ev.existed

\* C20: when a webhook event carries no line items and the order-detail fetch
\* fails, processing goes on to the acknowledgement, and an already stored
\* order keeps its stored items (names, quantities, modifiers, completed
\* flags, in the same positions) and its itemCount.  An order read back from
\* a state file that holds no items has none to keep.
C20_FetchFailureKeepsItems ==
    [][FetchFailedOnStored' =>
          LET old == Get(orders, ev'.key)
              new == Get(orders', ev'.key)
          IN  /\ ev'.key \in Keys(orders')
              /\ old.hasItems => (new.items = old.items /\ new.itemCount = old.itemCount)
              /\ fx'[Len(fx')] = "ack200"]_vars

C20_Witness ==
    /\ FetchFailedOnStored
    /\ Len(After.items) = 2
    /\ SomeCompleted(After.items)
    /\ After.itemCount > 0
    /\ Did("ack200")

\* C21: a webhook request that waits for the order-detail fetch is eventually
\* acknowledged and its event eventually applied, even when the fetch never
\* completes: the handler never waits forever on the fetch.
C21_FetchBounded ==
    (pending # {}) ~> (pending = {} /\ ev.kind = "webhook" /\ Did("write") /\ Did("ack200"))

\* C22: once an order is in the store, no later source event, display event
\* or test-order creation changes its createdAt.
C22_CreatedAtImmutable ==
    [][\A k \in Keys(orders) \cap Keys(orders') :
          Get(orders', k).createdAt = Get(orders, k).createdAt]_vars

\* every quantity of the order is a plain number
Countable(order) == \A j \in 1..Len(order.items) : order.items[j].quantity >= 0

\* C23: in every reachable state every order in the store has itemCount equal
\* to the sum of the quantities of its items (stated for the orders whose
\* quantities are all numbers).
C23_ItemCountIsSum ==
    \A i \in 1..Len(orders) :
        Countable(orders[i].o) => orders[i].o.itemCount = SumQuantity(orders[i].o.items)

\* C24: a source line item whose quantity is missing, null or not numeric is
\* stored with quantity 1, and a stored quantity of 0 comes only from an
\* explicit numeric zero.  No line item of Payloads or Fetched carries a zero,
\* so every item a source event has stored must have a quantity of 1 or more.
C24_QuantityNormalized ==
    (SourceEvent /\ ev.key \in Keys(orders))
        => \A j \in 1..Len(After.items) : After.items[j].quantity >= 1

\* C25: while the process runs, an order stored under a key stays stored under
\* it with the same orderId, and the creation of a test or simulated order
\* never lands on a key that already holds an order.
C25_NeverDeletedOrReplaced ==
    [][(proc = "up" /\ proc' = "up") =>
          /\ \A k \in Keys(orders) :
                /\ k \in Keys(orders')
                /\ Get(orders', k).orderId = Get(orders, k).orderId
          /\ ev'.kind = "testOrder" => ev'.key \notin Keys(orders)]_vars

\* the order numbers derived from the tail of the order id
Fallbacks(orderId) == {Slice6(orderId), ToUpperCase(Slice6(orderId))}

\* C26: once an order is stored with a display number taken from the source,
\* no later source event for the same orderId replaces it with the fallback
\* derived from the tail of the orderId.
C26_OrderNumberNeverRegresses ==
    [][(ev'.kind = "webhook" /\ ev'.existed
          /\ Get(orders, ev'.key).orderNumber \notin Fallbacks(ev'.key))
         => Get(orders', ev'.key).orderNumber \notin Fallbacks(ev'.key)]_vars

\* C27: in every reachable state every order in the store has a status in
\* {new, in-progress, ready, done, cancelled}.
C27_StatusDomain ==
    \A i \in 1..Len(orders) : orders[i].o.status \in Statuses

\* C28: an order created by the first event that references an unseen orderId
\* has status new, whatever that event is.
C28_CreatedAsNew ==
    (ev.kind \in {"webhook", "testOrder"} /\ ~ev.existed /\ ev.key \in Keys(orders))
        => After.status = "new"

\* the payloads that carry a full order with an item list for a stored order
\* in status new or in-progress, with a state that does not cancel
Refreshing(p) ==
    /\ p.wrapper /\ p.order.present /\ p.order.hasLineItems
    /\ p.order.id \in Keys(orders)
    /\ Get(orders, p.order.id).status \in {"new", "in-progress"}
    /\ ~IsCancelling(StateFromSquare(variant, p.state))

\* the step kept the status of the order, replaced its items by the list of p
\* in source order, and carried the completed flags over by position
Refreshed(p) ==
    LET old == Get(orders, p.order.id)
        new == Get(orders', p.order.id)
    IN  /\ new.status = old.status
        /\ Len(new.items) = Len(p.order.line_items)
        /\ \A i \in 1..Len(new.items) :
              /\ new.items[i].name = DisplayName(variant, p.order.line_items[i])
              /\ new.items[i].completed = (i <= Len(old.items) /\ old.items[i].completed)

\* C29 (as stated): a source event with a non-cancelling state and a new item
\* list, applied to an order in status new or in-progress, keeps the order's
\* status, replaces its items by the new list in source order, and gives the
\* item at each position the completed flag of the item stored at that
\* position before (false where there was none).
C29_ItemRefresh ==
    [][\A p \in Payloads : (Refreshing(p) /\ WebhookReceive(p)) => Refreshed(p)]_vars

\* C29 (amended): the same, for an event whose item list is not empty; an empty
\* list replaces the stored items in some versions and keeps them in others.
C29_ItemRefreshNonEmpty ==
    [][\A p \in Payloads :
          (Refreshing(p) /\ p.order.line_items # <<>> /\ WebhookReceive(p)) => Refreshed(p)]_vars

C29_Witness ==
    /\ ev.kind = "webhook" /\ ev.arg = "inline" /\ ev.existed
    /\ ev.prevStatus = "in-progress" /\ After.status = "in-progress"
    /\ ~IsCancelling(After.stateFromSquare)
    /\ Len(After.items) = 2
    /\ After.items[1].completed /\ ~After.items[2].completed

\* C30: a source event for a stored order for which no full order object is
\* available (minimal event, and the fetch failed) leaves the order's stored
\* fulfillmentType and orderNote unchanged.
C30_MetaRetained ==
    [][(FetchFailedOnStored' /\ HasMeta(variant)) =>
          /\ Get(orders', ev'.key).fulfillmentType = Get(orders, ev'.key).fulfillmentType
          /\ Get(orders', ev'.key).orderNote = Get(orders, ev'.key).orderNote]_vars

\* C31: during one broadcast, a send that throws for one session does not keep
\* the message from any other open session.
C31_BroadcastIsolation ==
    (ev.arg = "sendFailed" /\ Did("broadcast"))
        => \A s \in sessions \ {ev.sess} : Len(outbox[s]) = 1

\* the webhook request q, waiting for its fetch, carries a non-cancelling state
Harmless(q) == ~IsCancelling(StateFromSquare(variant, q.state))

\* C32: the handler reads the stored order, decides the status and writes the
\* store in one step after the fetch, so a mark-ready handled while a webhook
\* request waits for its fetch is not lost: when the request (with a
\* non-cancelling state) goes on, the order is ready before and after.
C32_ReadyDuringFetchKept ==
    [][\A q \in pending :
          (/\ q \notin pending'
           /\ ev'.kind = "webhook" /\ ev'.key = q.orderId
           /\ Get(orders, q.orderId).status = "ready"
           /\ Harmless(q))
          => Get(orders', q.orderId).status = "ready"]_vars

\* a display has marked an order ready while a webhook request for that order
\* waits for its fetch
C32_Witness ==
    \E q \in pending :
        /\ ev.kind = "ORDER_READY" /\ ev.key = q.orderId
        /\ ev.prevStatus \in {"new", "in-progress"} /\ After.status = "ready"
        /\ Harmless(q)

\* C33: after a display cancel event for an order that exists, that order's
\* status is cancelled and every open session has been sent the broadcast.
C33_DisplayCancel ==
    (ev.kind = "ORDER_CANCELLED" /\ ~Unknown(ev.ref, orders))
        => /\ Get(orders, Named).status = "cancelled"
           /\ Did("broadcast")
           /\ \A s \in sessions : Len(outbox[s]) = 1

\* the ITEM_COMPLETED_CONFIRM messages the last handler sent
ItemConfirms ==
    {outbox[s][1] : s \in {t \in sessions : Len(outbox[t]) = 1}}

C35_WitnessCancelLast ==
    /\ ev.kind = "webhook" /\ ev.raced /\ ev.cancelling /\ ev.prevStatus # "cancelled"
    /\ After.status = "cancelled"

\* C36: a display mark-ready event on an order whose status is cancelled or
\* done leaves the status as it was and broadcasts nothing.
C36_MarkReadyRespectsTerminal ==
    (ev.kind = "ORDER_READY" /\ NamedStatus \in {"cancelled", "done"})
        => (Get(orders, Named).status = NamedStatus /\ ~Did("broadcast"))

\* what a session holds of an order: its status and its items
Held(order) == [status |-> order.status, items |-> order.items]

\* what a session holds of the order with key k and number n after it has
\* applied msg to what it held before
Applied(c, k, n, msg) ==
    CASE msg.order # NoOrder /\ msg.order.orderId = k -> Held(msg.order)
      [] msg.order = NoOrder /\ msg.orderNumber = n /\ msg.type = "ORDER_READY_CONFIRM" ->
            [c EXCEPT !.status = "ready"]
      [] msg.order = NoOrder /\ msg.orderNumber = n /\ msg.type = "ORDER_STATUS_UPDATE" ->
            [c EXCEPT !.status = msg.status]
      [] msg.order = NoOrder /\ msg.orderNumber = n /\ msg.type = "ITEM_COMPLETED_CONFIRM"
         /\ msg.itemIndex + 1 \in 1..Len(c.items) ->
            [c EXCEPT !.items[msg.itemIndex + 1].completed = msg.completed]
      [] OTHER -> c

RECURSIVE AppliedAll(_, _, _, _)
AppliedAll(c, k, n, msgs) ==
    IF msgs = <<>> THEN c
    ELSE AppliedAll(Applied(c, k, n, Head(msgs)), k, n, Tail(msgs))

\* C37: a session that stays connected over a step and held every order as
\* the store had it holds, once it has applied the messages the step sent it,
\* every order's status and items as the store has them after the step.
C37_ClientsConverge ==
    [][\A s \in sessions \cap sessions' : \A k \in Keys(orders') :
          AppliedAll(Held(Get(orders, k)), k, Get(orders', k).orderNumber, outbox'[s])
              = Held(Get(orders', k))]_vars

\* C38: no two orders in the store have the same orderNumber.
C38_OrderNumberUnique ==
    \A i, j \in 1..Len(orders) :
        i # j => orders[i].o.orderNumber # orders[j].o.orderNumber

\* C39: in the third version of src/server.js no order with status new has a
\* completed item.
C39_NewHasNoCompletedItem ==
    variant = "srv3"
        => \A i \in 1..Len(orders) :
              orders[i].o.status = "new" => ~SomeCompleted(orders[i].o.items)

\* a reactivation has set an order with a completed item back to new and
\* reset its items
C39_Witness ==
    /\ variant = "srv3"
    /\ ev.kind = "ORDER_REACTIVATED" /\ ev.key # Undef
    /\ ~ev.kept
    /\ After.status = "new" /\ ~SomeCompleted(After.items)

\* every stored order has a completedAt exactly when its status is done
CompletedAtIffDone ==
    \A i \in 1..Len(orders) : (orders[i].o.completedAt # 0) <=> (orders[i].o.status = "done")

\* C40: in the first version of src/server.js an order has a completedAt
\* exactly when its status is done; TOGGLE_ITEM changes no order's status or
\* completedAt; a message whose handling throws leaves the store as it was
\* and sends nothing.
C40_CompletedAtIffDone ==
    [][variant = "srv1"
          => /\ CompletedAtIffDone'
             /\ ev'.kind = "TOGGLE_ITEM"
                   => /\ Keys(orders') = Keys(orders)
                      /\ \A k \in Keys(orders) :
                            /\ Get(orders', k).status = Get(orders, k).status
                            /\ Get(orders', k).completedAt = Get(orders, k).completedAt
             /\ ev'.arg = "threw" => (orders' = orders /\ outbox' = Quiet)]_vars

\* SET_STATUS has moved a done order to another status and deleted completedAt
C40_Witness ==
    /\ variant = "srv1"
    /\ ev.kind = "SET_STATUS" /\ ev.prevStatus = "done"
    /\ After.status # "done" /\ After.completedAt = 0

\* TOGGLE_ITEM has changed an item of a done order
C40_WitnessToggle ==
    /\ variant = "srv1"
    /\ ev.kind = "TOGGLE_ITEM" /\ ev.key # Undef /\ ~ev.kept
    /\ After.status = "done" /\ After.completedAt # 0

\* the handling of a message for a stored order has thrown
C40_WitnessThrew ==
    /\ variant = "srv1"
    /\ ev.arg = "threw" /\ orders # <<>>

====
